---- MODULE Spec2Model ----
(***************************************************************************)
(* Model of CS215Project.py: the city graph built from an edge list with   *)
(* randomized attributes, breadth-first search with path reconstruction,  *)
(* the travel-time evaluator and the tabu search, run in the order of the  *)
(* main execution (bfs, extract_bfs_path, total_travel_time, tabu_search). *)
(*                                                                         *)
(* Travel times are exact rationals <<numerator, denominator>>; +infinity  *)
(* is <<1, 0>>.  traffic is kept in hundredths (it is rounded to two       *)
(* decimals when drawn).  The code adds floats: a rounding that makes two   *)
(* different sums equal is not modelled.  Python's None is the tuple       *)
(* <<"None">>, which no path equals because "None" is not a node.          *)
(***************************************************************************)
EXTENDS Integers, Sequences, FiniteSets, TLC

VARIABLES nodes, edges, graph, pc,
          start, goal, max_iterations, tabu_size,
          visited, queue, order, bfs_edges, neighbor_iter, node,
          parent_map, path, current, bfs_path, bfs_time,
          current_solution, best_solution, best_cost, tabu_list,
          tabu_history, iteration, tabu_path, tabu_time

vars == <<nodes, edges, graph, pc,
          start, goal, max_iterations, tabu_size,
          visited, queue, order, bfs_edges, neighbor_iter, node,
          parent_map, path, current, bfs_path, bfs_time,
          current_solution, best_solution, best_cost, tabu_list,
          tabu_history, iteration, tabu_path, tabu_time>>

-----------------------------------------------------------------------------
(* Bounds *)

NumNodes == 3

MaxEdges == 2

MaxIter == 2

MaxTabu == 2

-----------------------------------------------------------------------------
(* Values *)

NodeNames == <<"A", "B", "C", "D", "E", "F">>

CityNodes == {NodeNames[i] : i \in 1..Len(NodeNames)}

SmallNodes == {NodeNames[i] : i \in 1..NumNodes}

CityEdges ==
  << <<"A", "B">>, <<"A", "C">>, <<"B", "D">>,
     <<"C", "E">>, <<"D", "F">>, <<"E", "F">> >>

\* <<distance, speed_limit, traffic in hundredths>>: two of the values the
\* randomization of the edges can draw
AttrChoices == { <<5, 50, 100>>, <<10, 25, 150>> }

None == <<"None">>

NoNode == "-"

Inf == <<1, 0>>

-----------------------------------------------------------------------------
(* Exact arithmetic on travel times *)

RECURSIVE GCD(_, _)
GCD(a, b) == IF b = 0 THEN a ELSE GCD(b, a % b)

Norm(r) == LET g == GCD(r[1], r[2]) IN <<r[1] \div g, r[2] \div g>>

Plus(r, s) == Norm(<<r[1] * s[2] + s[1] * r[2], r[2] * s[2]>>)

Less(r, s) == r[1] * s[2] < s[1] * r[2]

Zero == <<0, 1>>

-----------------------------------------------------------------------------
(* Sequence helpers *)

Last(s) == s[Len(s)]

Contains(s, x) == \E i \in 1..Len(s) : s[i] = x

NoDuplicates(s) == \A i, j \in 1..Len(s) : s[i] = s[j] => i = j

IsPrefix(s, t) == Len(s) <= Len(t) /\ SubSeq(t, 1, Len(s)) = s

\* mutant: the final reversal is forgotten
Reverse_forgotten(s) == s

Reverse(s) == [i \in 1..Len(s) |-> s[Len(s) + 1 - i]]

-----------------------------------------------------------------------------
(* The graph: graph[u] is the adjacency of u in insertion order, each entry *)
(* holding the neighbour and the attributes of the edge                     *)

EmptyGraph(ns) == [u \in ns |-> <<>>]

add_edge(g, u, v, a) ==
  LET entry == [to |-> v, distance |-> a[1], speed_limit |-> a[2], traffic |-> a[3]]
  IN  IF \E i \in 1..Len(g[u]) : g[u][i].to = v
      THEN [g EXCEPT ![u] = [i \in 1..Len(g[u]) |->
                               IF g[u][i].to = v THEN entry ELSE g[u][i]]]
      ELSE [g EXCEPT ![u] = Append(g[u], entry)]

neighbors(g, u) == [i \in 1..Len(g[u]) |-> g[u][i].to]

HasEdge(g, u, v) == Contains(neighbors(g, u), v)

EdgeAttr(g, u, v) == g[u][CHOOSE i \in 1..Len(g[u]) : g[u][i].to = v]

calculate_travel_time(distance, speed_limit, traffic) ==
  Norm(<<distance * 50 * traffic, speed_limit * 100>>)

RECURSIVE SumTimes(_, _, _)
SumTimes(g, p, i) ==
  IF i >= Len(p) THEN Zero
  ELSE LET e == EdgeAttr(g, p[i], p[i + 1])
       IN  Plus(calculate_travel_time(e.distance, e.speed_limit, e.traffic),
                SumTimes(g, p, i + 1))

\* mutant: a path without an edge costs nothing
total_travel_time_zero(g, p) ==
  IF p # None /\ Len(p) > 1 THEN SumTimes(g, p, 1) ELSE Zero

total_travel_time(g, p) ==
  IF p # None /\ Len(p) > 1 THEN SumTimes(g, p, 1) ELSE Inf

-----------------------------------------------------------------------------
(* extract_bfs_path helpers *)

\* {v: u for u, v in edges}: a later edge with the same target overwrites
RECURSIVE ParentMapFrom(_, _, _)
ParentMapFrom(es, i, pm) ==
  IF i > Len(es) THEN pm
  ELSE ParentMapFrom(es, i + 1, (es[i][2] :> es[i][1]) @@ pm)

ParentMap(es) == ParentMapFrom(es, 1, <<>>)

-----------------------------------------------------------------------------
(* tabu_search helpers *)

travel_time(p) == total_travel_time(graph, p)

\* mutant: the "nbr not in path" test is dropped
get_neighbors_revisit(p) ==
  LET nb == neighbors(graph, Last(p))
  IN  [i \in 1..Len(nb) |-> Append(p, nb[i])]

\* mutant: path[-1:] + [nbr] instead of path + [nbr]
get_neighbors_lastonly(p) ==
  LET nb   == neighbors(graph, Last(p))
      keep == SelectSeq(nb, LAMBDA n : ~Contains(p, n))
  IN  [i \in 1..Len(keep) |-> <<Last(p), keep[i]>>]

get_neighbors(p) ==
  LET nb   == neighbors(graph, Last(p))
      keep == SelectSeq(nb, LAMBDA n : ~Contains(p, n))
  IN  [i \in 1..Len(keep) |-> Append(p, keep[i])]

NotTabu(cands, tl) == SelectSeq(cands, LAMBDA c : ~Contains(tl, c))

\* list.sort(key = travel_time): stable, ascending
RECURSIVE InsertSorted(_, _)
InsertSorted(s, x) ==
  IF s = <<>> THEN <<x>>
  ELSE IF Less(travel_time(x), travel_time(Last(s)))
       THEN Append(InsertSorted(SubSeq(s, 1, Len(s) - 1), x), Last(s))
       ELSE Append(s, x)

RECURSIVE SortByTime(_)
SortByTime(s) ==
  IF s = <<>> THEN <<>>
  ELSE InsertSorted(SortByTime(SubSeq(s, 1, Len(s) - 1)), Last(s))

\* mutant: a full deque refuses the new entry instead of dropping the oldest
DequeAppend_keepold(d, x, maxlen) ==
  IF Len(d) >= maxlen THEN d ELSE Append(d, x)

\* deque(maxlen).append: the oldest entry leaves once the length exceeds maxlen
DequeAppend(d, x, maxlen) ==
  LET d2 == Append(d, x) IN IF Len(d2) > maxlen THEN Tail(d2) ELSE d2

\* mutant: the test that the walk stands on the goal is dropped
Improves_anywhere(sol, cost, g, best) == Less(cost, best)

Improves(sol, cost, g, best) == Last(sol) = g /\ Less(cost, best)

-----------------------------------------------------------------------------
(* Initial states *)

Pairs(ns) == ns \X ns

NodeIndex(x) == CHOOSE i \in 1..Len(NodeNames) : NodeNames[i] = x

Flatten(s) == [i \in 1..(2 * Len(s)) |-> s[(i + 1) \div 2][2 - (i % 2)]]

\* the names of f[i..] come into use in the order of NodeNames, the first k
\* names being in use already
RECURSIVE NamedInOrder(_, _, _)
NamedInOrder(f, i, k) ==
  IF i > Len(f) THEN TRUE
  ELSE IF NodeIndex(f[i]) <= k THEN NamedInOrder(f, i + 1, k)
       ELSE NodeIndex(f[i]) = k + 1 /\ NamedInOrder(f, i + 1, k + 1)

\* The edge lists of at most n distinct edges.  Neither search looks
\* at a node other than to compare it with another, so the lists are taken
\* up to a renaming of the nodes: like the edge list of the city, a list
\* brings the names into use in alphabetical order.
EdgeLists(ns, n) ==
  { s \in UNION { [1..k -> Pairs(ns)] : k \in 0..n } :
      NoDuplicates(s) /\ NamedInOrder(Flatten(s), 1, 0) }

InitLocals ==
  /\ graph = EmptyGraph(nodes)
  /\ pc = "build"
  /\ start = NoNode /\ goal = NoNode
  /\ max_iterations = 0 /\ tabu_size = 0
  /\ visited = {} /\ queue = <<>> /\ order = <<>> /\ bfs_edges = <<>>
  /\ neighbor_iter = <<>> /\ node = NoNode
  /\ parent_map = <<>> /\ path = <<>> /\ current = NoNode
  /\ bfs_path = None /\ bfs_time = Inf
  /\ current_solution = <<>> /\ best_solution = None /\ best_cost = Inf
  /\ tabu_list = <<>> /\ tabu_history = <<>> /\ iteration = 0
  /\ tabu_path = None /\ tabu_time = Inf

Init ==
  /\ nodes = SmallNodes
  /\ edges \in EdgeLists(SmallNodes, MaxEdges)
  /\ InitLocals

\* the same with one more edge, which lets two routes of different lengths
\* lead to one node
InitDense ==
  /\ nodes = SmallNodes
  /\ edges \in EdgeLists(SmallNodes, MaxEdges + 1)
  /\ InitLocals

InitCity ==
  /\ nodes = CityNodes
  /\ edges = CityEdges
  /\ InitLocals

-----------------------------------------------------------------------------
(* Graph construction: for u, v in edges: city.add_edge(u, v, ...) *)

AddEdge ==
  /\ pc = "build" /\ edges # <<>>
  /\ \E a \in AttrChoices :
       graph' = add_edge(graph, Head(edges)[1], Head(edges)[2], a)
  /\ edges' = Tail(edges)
  /\ UNCHANGED <<nodes, pc, start, goal, max_iterations, tabu_size,
                 visited, queue, order, bfs_edges, neighbor_iter, node,
                 parent_map, path, current, bfs_path, bfs_time,
                 current_solution, best_solution, best_cost, tabu_list,
                 tabu_history, iteration, tabu_path, tabu_time>>

-----------------------------------------------------------------------------
(* bfs(graph, start) *)

BfsCall ==
  /\ pc = "build" /\ edges = <<>>
  /\ \E s \in nodes : start' = s /\ queue' = <<s>>
  /\ visited' = {} /\ order' = <<>> /\ bfs_edges' = <<>>
  /\ pc' = "bfs"
  /\ UNCHANGED <<nodes, edges, graph, goal, max_iterations, tabu_size,
                 neighbor_iter, node,
                 parent_map, path, current, bfs_path, bfs_time,
                 current_solution, best_solution, best_cost, tabu_list,
                 tabu_history, iteration, tabu_path, tabu_time>>

\* node = queue.pop(0); if node not in visited: visited.add, order.append
BfsPop ==
  /\ pc = "bfs" /\ queue # <<>>
  /\ node' = Head(queue)
  /\ queue' = Tail(queue)
  /\ IF Head(queue) \notin visited
     THEN /\ visited' = visited \cup {Head(queue)}
          /\ order' = Append(order, Head(queue))
          /\ neighbor_iter' = neighbors(graph, Head(queue))
          /\ pc' = IF neighbors(graph, Head(queue)) = <<>> THEN "bfs" ELSE "bfs_for"
     ELSE UNCHANGED <<visited, order, neighbor_iter, pc>>
  /\ UNCHANGED <<nodes, edges, graph, start, goal, max_iterations, tabu_size,
                 bfs_edges,
                 parent_map, path, current, bfs_path, bfs_time,
                 current_solution, best_solution, best_cost, tabu_list,
                 tabu_history, iteration, tabu_path, tabu_time>>

\* mutant: the "neighbor not in visited" test is dropped
BfsNeighbor_unguarded ==
  /\ pc = "bfs_for"
  /\ queue' = Append(queue, Head(neighbor_iter))
  /\ bfs_edges' = Append(bfs_edges, <<node, Head(neighbor_iter)>>)
  /\ neighbor_iter' = Tail(neighbor_iter)
  /\ pc' = IF Tail(neighbor_iter) = <<>> THEN "bfs" ELSE "bfs_for"
  /\ UNCHANGED <<nodes, edges, graph, start, goal, max_iterations, tabu_size,
                 visited, order, node,
                 parent_map, path, current, bfs_path, bfs_time,
                 current_solution, best_solution, best_cost, tabu_list,
                 tabu_history, iteration, tabu_path, tabu_time>>

\* one pass of: for neighbor in graph.neighbors(node)
BfsNeighbor ==
  /\ pc = "bfs_for"
  /\ LET neighbor == Head(neighbor_iter) IN
       IF neighbor \notin visited
       THEN /\ queue' = Append(queue, neighbor)
            /\ bfs_edges' = Append(bfs_edges, <<node, neighbor>>)
       ELSE UNCHANGED <<queue, bfs_edges>>
  /\ neighbor_iter' = Tail(neighbor_iter)
  /\ pc' = IF Tail(neighbor_iter) = <<>> THEN "bfs" ELSE "bfs_for"
  /\ UNCHANGED <<nodes, edges, graph, start, goal, max_iterations, tabu_size,
                 visited, order, node,
                 parent_map, path, current, bfs_path, bfs_time,
                 current_solution, best_solution, best_cost, tabu_list,
                 tabu_history, iteration, tabu_path, tabu_time>>

\* while queue: ... return order, edges
BfsReturn ==
  /\ pc = "bfs" /\ queue = <<>>
  /\ pc' = "extract_call"
  /\ UNCHANGED <<nodes, edges, graph, start, goal, max_iterations, tabu_size,
                 visited, queue, order, bfs_edges, neighbor_iter, node,
                 parent_map, path, current, bfs_path, bfs_time,
                 current_solution, best_solution, best_cost, tabu_list,
                 tabu_history, iteration, tabu_path, tabu_time>>

-----------------------------------------------------------------------------
(* extract_bfs_path(start, goal, edges) *)

ExtractCall ==
  /\ pc = "extract_call"
  /\ \E g \in nodes : goal' = g /\ path' = <<g>> /\ current' = g
  /\ parent_map' = ParentMap(bfs_edges)
  /\ pc' = "extract"
  /\ UNCHANGED <<nodes, edges, graph, start, max_iterations, tabu_size,
                 visited, queue, order, bfs_edges, neighbor_iter, node,
                 bfs_path, bfs_time,
                 current_solution, best_solution, best_cost, tabu_list,
                 tabu_history, iteration, tabu_path, tabu_time>>

ExtractStep ==
  /\ pc = "extract" /\ current # start
  /\ current \in DOMAIN parent_map
  /\ current' = parent_map[current]
  /\ path' = Append(path, parent_map[current])
  /\ UNCHANGED <<nodes, edges, graph, pc, start, goal, max_iterations, tabu_size,
                 visited, queue, order, bfs_edges, neighbor_iter, node,
                 parent_map, bfs_path, bfs_time,
                 current_solution, best_solution, best_cost, tabu_list,
                 tabu_history, iteration, tabu_path, tabu_time>>

ExtractNone ==
  /\ pc = "extract" /\ current # start
  /\ current \notin DOMAIN parent_map
  /\ bfs_path' = None
  /\ pc' = "time"
  /\ UNCHANGED <<nodes, edges, graph, start, goal, max_iterations, tabu_size,
                 visited, queue, order, bfs_edges, neighbor_iter, node,
                 parent_map, path, current, bfs_time,
                 current_solution, best_solution, best_cost, tabu_list,
                 tabu_history, iteration, tabu_path, tabu_time>>

ExtractReturn ==
  /\ pc = "extract" /\ current = start
  /\ bfs_path' = Reverse(path)
  /\ pc' = "time"
  /\ UNCHANGED <<nodes, edges, graph, start, goal, max_iterations, tabu_size,
                 visited, queue, order, bfs_edges, neighbor_iter, node,
                 parent_map, path, current, bfs_time,
                 current_solution, best_solution, best_cost, tabu_list,
                 tabu_history, iteration, tabu_path, tabu_time>>

\* bfs_time = total_travel_time(city, bfs_path)
TotalTime ==
  /\ pc = "time"
  /\ bfs_time' = total_travel_time(graph, bfs_path)
  /\ pc' = "tabu_call"
  /\ UNCHANGED <<nodes, edges, graph, start, goal, max_iterations, tabu_size,
                 visited, queue, order, bfs_edges, neighbor_iter, node,
                 parent_map, path, current, bfs_path,
                 current_solution, best_solution, best_cost, tabu_list,
                 tabu_history, iteration, tabu_path, tabu_time>>

-----------------------------------------------------------------------------
(* tabu_search(graph, start, goal, max_iterations, tabu_size) *)

TabuCall ==
  /\ pc = "tabu_call"
  /\ \E mi \in 0..MaxIter, ts \in 0..MaxTabu :
       max_iterations' = mi /\ tabu_size' = ts
  /\ current_solution' = <<start>>
  /\ best_solution' = None /\ best_cost' = Inf
  /\ tabu_list' = <<>> /\ tabu_history' = <<>>
  /\ iteration' = 0
  /\ pc' = "tabu"
  /\ UNCHANGED <<nodes, edges, graph, start, goal,
                 visited, queue, order, bfs_edges, neighbor_iter, node,
                 parent_map, path, current, bfs_path, bfs_time,
                 tabu_path, tabu_time>>

\* one pass of the for loop that accepts a neighbor
TabuIterate ==
  /\ pc = "tabu" /\ iteration < max_iterations
  /\ LET nbrs == NotTabu(get_neighbors(current_solution), tabu_list) IN
       /\ nbrs # <<>>
       /\ LET chosen == SortByTime(nbrs)[1]
              current_cost == travel_time(chosen)
          IN  /\ current_solution' = chosen
              /\ tabu_list' = DequeAppend(tabu_list, chosen, tabu_size)
              /\ tabu_history' = Append(tabu_history, chosen)
              /\ IF Improves(chosen, current_cost, goal, best_cost)
                 THEN best_solution' = chosen /\ best_cost' = current_cost
                 ELSE UNCHANGED <<best_solution, best_cost>>
  /\ iteration' = iteration + 1
  /\ UNCHANGED <<nodes, edges, graph, pc, start, goal, max_iterations, tabu_size,
                 visited, queue, order, bfs_edges, neighbor_iter, node,
                 parent_map, path, current, bfs_path, bfs_time,
                 tabu_path, tabu_time>>

\* if not neighbors: break
TabuBreak ==
  /\ pc = "tabu" /\ iteration < max_iterations
  /\ NotTabu(get_neighbors(current_solution), tabu_list) = <<>>
  /\ tabu_path' = best_solution /\ tabu_time' = best_cost
  /\ pc' = "done"
  /\ UNCHANGED <<nodes, edges, graph, start, goal, max_iterations, tabu_size,
                 visited, queue, order, bfs_edges, neighbor_iter, node,
                 parent_map, path, current, bfs_path, bfs_time,
                 current_solution, best_solution, best_cost, tabu_list,
                 tabu_history, iteration>>

\* the range is exhausted: return best_solution, best_cost, tabu_history
TabuReturn ==
  /\ pc = "tabu" /\ iteration = max_iterations
  /\ tabu_path' = best_solution /\ tabu_time' = best_cost
  /\ pc' = "done"
  /\ UNCHANGED <<nodes, edges, graph, start, goal, max_iterations, tabu_size,
                 visited, queue, order, bfs_edges, neighbor_iter, node,
                 parent_map, path, current, bfs_path, bfs_time,
                 current_solution, best_solution, best_cost, tabu_list,
                 tabu_history, iteration>>

-----------------------------------------------------------------------------

Next ==
  \/ AddEdge
  \/ BfsCall
  \/ BfsPop
  \/ BfsNeighbor
  \/ BfsReturn
  \/ ExtractCall
  \/ ExtractStep
  \/ ExtractNone
  \/ ExtractReturn
  \/ TotalTime
  \/ TabuCall
  \/ TabuIterate
  \/ TabuBreak
  \/ TabuReturn

Spec == Init /\ [][Next]_vars

SpecDense == InitDense /\ [][Next]_vars

SpecCity == InitCity /\ [][Next]_vars

-----------------------------------------------------------------------------
(* Graph-theoretic notions the properties are stated with *)

Successors(S) == S \cup {v \in nodes : \E u \in S : HasEdge(graph, u, v)}

RECURSIVE ReachSet(_)
ReachSet(S) ==
  LET T == Successors(S) IN IF T = S THEN S ELSE ReachSet(T)

Reachable(s, g) == g \in ReachSet({s})

\* number of hops of a shortest path from the set S (at distance d) to g
RECURSIVE HopsFrom(_, _, _)
HopsFrom(S, g, d) ==
  IF g \in S THEN d
  ELSE IF Successors(S) = S THEN -1
  ELSE HopsFrom(Successors(S), g, d + 1)

Hops(s, g) == HopsFrom({s}, g, 0)

IsGraphPath(p) == \A i \in 1..(Len(p) - 1) : HasEdge(graph, p[i], p[i + 1])

ExtractDone == pc \in {"time", "tabu_call", "tabu", "done"}

TimeDone == pc \in {"tabu_call", "tabu", "done"}

UniformAttributes ==
  \A u \in nodes : \A i \in 1..Len(graph[u]) :
    /\ graph[u][i].distance = 5
    /\ graph[u][i].speed_limit = 50
    /\ graph[u][i].traffic = 100

-----------------------------------------------------------------------------
(* Properties *)

\* C1: whenever goal is reachable from start, the path extract_bfs_path
\* returns from the edges of bfs has the minimum number of hops among all
\* start-to-goal paths of the graph.
C1_ShortestByHops ==
  (ExtractDone /\ Reachable(start, goal)) =>
    (bfs_path # None /\ Len(bfs_path) - 1 = Hops(start, goal))

\* C2: on the city graph with every edge costing 5.0, bfs from A discovers
\* [A,B,C,D,E,F], the path reconstructed to F is [A,B,D,F] and its
\* total_travel_time is 15.0.
C2_CityScenario ==
  (TimeDone /\ start = "A" /\ goal = "F" /\ UniformAttributes) =>
    /\ order = <<"A", "B", "C", "D", "E", "F">>
    /\ bfs_path = <<"A", "B", "D", "F">>
    /\ bfs_time = <<15, 1>>

\* C3: if goal is in the discovery order of bfs, extract_bfs_path terminates
\* (the path under construction never repeats a node, so the loop runs at
\* most once per node) and returns a path from start to goal whose
\* consecutive pairs are all edges of the graph.
C3_PathRoundTrip ==
  /\ pc = "extract" =>
       /\ NoDuplicates(path)
       /\ Len(path) <= Cardinality(nodes)
       /\ path[1] = goal /\ Last(path) = current
  /\ (ExtractDone /\ Contains(order, goal)) =>
       /\ bfs_path # None
       /\ bfs_path[1] = start
       /\ Last(bfs_path) = goal
       /\ IsGraphPath(bfs_path)

C3_Witness ==
  ExtractDone /\ Contains(order, goal) /\ bfs_path # None /\ Len(bfs_path) >= 3

C5_BestIsSimple ==
  /\ best_solution = None \/ NoDuplicates(best_solution)
  /\ tabu_path = None \/ NoDuplicates(tabu_path)

C5_Witness ==
  pc = "done" /\ tabu_path # None /\ Len(tabu_path) >= 3

C7_UnreachableIsData ==
  (goal # start /\ ~Reachable(start, goal)) =>
    /\ ExtractDone => bfs_path = None
    /\ TimeDone => bfs_time = Inf
    /\ best_solution = None /\ best_cost = Inf
    /\ pc = "done" => (tabu_path = None /\ tabu_time = Inf)

C7_Witness ==
  /\ pc = "done" /\ goal # start /\ ~Reachable(start, goal)
  /\ Len(tabu_history) >= 1

\* C8: when goal equals start, extract_bfs_path returns [start] whatever
\* edges bfs recorded, and total_travel_time of [start] is +infinity.
C8_StartIsGoal ==
  (goal = start) =>
    /\ ExtractDone => bfs_path = <<start>>
    /\ TimeDone => bfs_time = Inf

C8_Witness ==
  pc = "tabu_call" /\ goal = start /\ Len(bfs_edges) >= 1

\* C9: the explored-edges list of bfs holds exactly one edge per discovered
\* non-start node: no node is the target of two recorded edges.
C9_OneEdgePerNode ==
  /\ \A i, j \in 1..Len(bfs_edges) :
       bfs_edges[i][2] = bfs_edges[j][2] => i = j
  /\ pc = "extract_call" =>
       {bfs_edges[i][2] : i \in 1..Len(bfs_edges)}
         = {order[i] : i \in 1..Len(order)} \ {start}

\* C10: in every iteration of tabu_search every tabu entry (and every
\* accepted path) is a prefix of current_solution and every candidate is one
\* node longer than current_solution, so no candidate equals a tabu entry
\* and the tabu filter removes nothing.
C10_TabuNeverFilters ==
  pc = "tabu" =>
    LET cands == get_neighbors(current_solution) IN
      /\ \A i \in 1..Len(tabu_list) : IsPrefix(tabu_list[i], current_solution)
      /\ \A i \in 1..Len(tabu_history) : IsPrefix(tabu_history[i], current_solution)
      /\ \A i \in 1..Len(cands) :
           /\ Len(cands[i]) = Len(current_solution) + 1
           /\ ~Contains(tabu_list, cands[i])
      /\ NotTabu(cands, tabu_list) = cands

C10_Witness ==
  /\ pc = "tabu" /\ iteration < max_iterations
  /\ Len(tabu_list) >= 1
  /\ get_neighbors(current_solution) # <<>>

====
